---- MODULE Spec2Model ----
(***************************************************************************)
(* A model of polyscope's PointCloud structure: the name-keyed quantity    *)
(* registry, the active-drawing-quantity protocol, the lazily built        *)
(* primary program, the render pass and the pick index reservation.        *)
(*                                                                         *)
(* Heap objects (quantities, GPU programs, point clouds) are numbered in   *)
(* the order of their construction; the number is the object's identity    *)
(* (its address), and 0 is nullptr.  A destroyed object keeps its slot, so *)
(* that a later use of its address is visible.                             *)
(***************************************************************************)
EXTENDS Integers, Sequences, FiniteSets, TLC

\* ---------------------------------------------------------------- bounds
MaxNames == 2
MaxObjs == 2
MaxProgs == 4
MaxClouds == 3
MaxPoints == 2
MaxCoord == 2

\* Quantity and structure names.  Name k stands for the k-th string of a
\* lexicographically ordered list, so that std::map's key order is <.
Names == 1..MaxNames

NULL == 0

VARIABLES
  clouds,             \* every PointCloud constructed so far, by address
  heap,               \* every PointCloudQuantity constructed so far, by address
  progs,              \* every gl::GLProgram constructed so far, by address
  nextPickBufferInd,  \* the pick allocator's counter
  structures,         \* the global structure registry: set of [name, ptr]
  log,                \* what the operation in op did, in order
  op,                 \* the last operation called and its arguments
  pc                  \* "idle", or inside the loop of removeAllQuantities

vars == <<clouds, heap, progs, nextPickBufferInd, structures, log, op, pc>>

\* ------------------------------------------------------- state threading
\* The C++ methods call each other; each is an operator from a state record
\* to a state record, and an action commits the record its handler returns.
S ==
  [clouds |-> clouds, heap |-> heap, progs |-> progs,
   nextPickBufferInd |-> nextPickBufferInd, structures |-> structures,
   log |-> <<>>]

Commit(s) ==
  /\ clouds' = s.clouds
  /\ heap' = s.heap
  /\ progs' = s.progs
  /\ nextPickBufferInd' = s.nextPickBufferInd
  /\ structures' = s.structures
  /\ log' = s.log

\* One entry of the log: the call made, the quantity and program it touches,
\* and whether every object it dereferences was alive at that moment.
Ev(what, q, p, ok) == [ev |-> what, obj |-> q, prog |-> p, ok |-> ok]

Emit(s, e) == [s EXCEPT !.log = Append(@, e)]

IsAlive(s, q) == q # NULL /\ q <= Len(s.heap) /\ s.heap[q].deleted = 0

ProgAlive(s, p) == p # NULL /\ p <= Len(s.progs) /\ s.progs[p].deleted = 0

\* ------------------------------------------------------------- std::map
MapFind(m, name) == {e \in m : e.name = name}

MapAt(m, name) == (CHOOSE e \in m : e.name = name).ptr

MapErase(m, name) == m \ MapFind(m, name)

MapStore(m, name, q) == MapErase(m, name) \cup {[name |-> name, ptr |-> q]}

MapKeys(m) == {e.name : e \in m}

\* quantities.begin()->first: the smallest key
MapBegin(m) == CHOOSE k \in MapKeys(m) : \A j \in MapKeys(m) : k <= j

\* ------------------------------------------------ collaborators (not in src)
\* safeDelete(x): delete x if it is not nullptr, and set x to nullptr.
safeDelete(s, p) ==
  IF p = NULL THEN s
  ELSE [s EXCEPT !.progs[p].deleted = @ + 1]

\* pick::requestPickBufferRange: a contiguous range from a monotonic counter.
requestPickBufferRange(s, count) ==
  [s EXCEPT !.nextPickBufferInd = @ + count]

\* polyscope::error: reports the message and returns to the caller.
error(s) == Emit(s, Ev("error", NULL, NULL, TRUE))

\* registerStructure: fails when the name is taken, and then changes nothing.
registerStructureSucceeds(s, c) ==
  \A e \in s.structures : e.name # s.clouds[c].name

registerStructure(s, c) ==
  IF registerStructureSucceeds(s, c)
  THEN [s EXCEPT !.structures = @ \cup {[name |-> s.clouds[c].name, ptr |-> c]}]
  ELSE s

\* ------------------------------------------------------------ PointCloud
\* A PointCloud object right after its member initialisers have run.
NewPointCloud(name, n) ==
  [name |-> name, nPoints |-> n, enabled |-> TRUE, quantities |-> {},
   activePointQuantity |-> NULL, program |-> NULL, pickProgram |-> NULL,
   pickInds |-> <<>>, deleted |-> 0]

\* A PointCloudQuantity right after its constructor.
NewQuantity(name, drawsPoints) ==
  [name |-> name, drawsPoints |-> drawsPoints, enabled |-> FALSE, deleted |-> 0]

NewProgram(by, pick) == [by |-> by, pick |-> pick, deleted |-> 0]

deleteProgram(s, c) ==
  LET p == s.clouds[c].program
      s1 == Emit(s, Ev("deleteProgram", NULL, p, p = NULL \/ ProgAlive(s, p)))
  IN [safeDelete(s1, p) EXCEPT !.clouds[c].program = NULL]

setPointCloudUniforms(s, p) ==
  Emit(s, Ev("setPointCloudUniforms", NULL, p, ProgAlive(s, p)))

prepare(s, c) ==
  LET a == s.clouds[c].activePointQuantity
      p == Len(s.progs) + 1
      s1 == IF a = NULL
            THEN Emit(s, Ev("new GLProgram", NULL, p, TRUE))
            ELSE Emit(s, Ev("createProgram", a, p, IsAlive(s, a)))
  IN [s1 EXCEPT !.progs = Append(@, NewProgram(a, FALSE)),
                !.clouds[c].program = p]

\* preparePick that numbers the elements from 0 instead of from pickStart
preparePick_localIndices(s, c) ==
  LET pickCount == s.clouds[c].nPoints
      s1 == requestPickBufferRange(s, pickCount)
      s2 == safeDelete(s1, s1.clouds[c].pickProgram)
      p == Len(s2.progs) + 1
  IN [s2 EXCEPT !.progs = Append(@, NewProgram(NULL, TRUE)),
                !.clouds[c].pickProgram = p,
                !.clouds[c].pickInds = [k \in 1..pickCount |-> k - 1]]

preparePick(s, c) ==
  LET pickCount == s.clouds[c].nPoints
      pickStart == s.nextPickBufferInd
      s1 == requestPickBufferRange(s, pickCount)
      s2 == safeDelete(s1, s1.clouds[c].pickProgram)
      p == Len(s2.progs) + 1
  IN [s2 EXCEPT !.progs = Append(@, NewProgram(NULL, TRUE)),
                !.clouds[c].pickProgram = p,
                !.clouds[c].pickInds = [k \in 1..pickCount |-> pickStart + k - 1]]

RECURSIVE drawQuantities(_, _)
drawQuantities(s, m) ==
  IF m = {} THEN s
  ELSE LET k == MapBegin(m)
           q == MapAt(m, k)
       IN drawQuantities(Emit(s, Ev("quantity.draw", q, NULL, IsAlive(s, q))),
                         MapErase(m, k))

\* draw() without the early return for a disabled structure
draw_ignoresEnabled(s, c) ==
  LET s1 == IF s.clouds[c].program = NULL THEN prepare(s, c) ELSE s
      p == s1.clouds[c].program
      a == s1.clouds[c].activePointQuantity
      s2 == setPointCloudUniforms(s1, p)
      s3 == IF a = NULL THEN s2
            ELSE Emit(s2, Ev("setProgramValues", a, p, IsAlive(s2, a)))
      s4 == Emit(s3, Ev("program.draw", NULL, p, ProgAlive(s3, p)))
  IN drawQuantities(s4, s4.clouds[c].quantities)

\* draw() that lets the quantities draw before the primary pass
draw_quantitiesFirst(s, c) ==
  IF ~s.clouds[c].enabled THEN s
  ELSE LET s1 == IF s.clouds[c].program = NULL THEN prepare(s, c) ELSE s
           p == s1.clouds[c].program
           a == s1.clouds[c].activePointQuantity
           s2 == drawQuantities(s1, s1.clouds[c].quantities)
           s3 == setPointCloudUniforms(s2, p)
           s4 == IF a = NULL THEN s3
                 ELSE Emit(s3, Ev("setProgramValues", a, p, IsAlive(s3, a)))
       IN Emit(s4, Ev("program.draw", NULL, p, ProgAlive(s4, p)))

draw(s, c) ==
  IF ~s.clouds[c].enabled THEN s
  ELSE LET s1 == IF s.clouds[c].program = NULL THEN prepare(s, c) ELSE s
           p == s1.clouds[c].program
           a == s1.clouds[c].activePointQuantity
           s2 == setPointCloudUniforms(s1, p)
           s3 == IF a = NULL THEN s2
                 ELSE Emit(s2, Ev("setProgramValues", a, p, IsAlive(s2, a)))
           s4 == Emit(s3, Ev("program.draw", NULL, p, ProgAlive(s3, p)))
       IN drawQuantities(s4, s4.clouds[c].quantities)

drawPick(s, c) ==
  IF ~s.clouds[c].enabled THEN s
  ELSE LET p == s.clouds[c].pickProgram
           s1 == setPointCloudUniforms(s, p)
       IN Emit(s1, Ev("program.draw", NULL, p, ProgAlive(s1, p)))

\* ----------------------------------------------------------- quantities
\* clearActiveQuantity that keeps the cached program
clearActiveQuantity_keepsProgram(s, c) ==
  LET a == s.clouds[c].activePointQuantity
  IN IF a # NULL
     THEN [Emit(s, Ev("clearActive", a, NULL, IsAlive(s, a)))
             EXCEPT !.heap[a].enabled = FALSE,
                    !.clouds[c].activePointQuantity = NULL]
     ELSE s

\* clearActiveQuantity that invalidates the program only when a quantity was
\* active
clearActiveQuantity_onlyIfActive(s, c) ==
  LET a == s.clouds[c].activePointQuantity
  IN IF a # NULL
     THEN LET s1 == deleteProgram(s, c)
          IN [Emit(s1, Ev("clearActive", a, NULL, IsAlive(s1, a)))
                EXCEPT !.heap[a].enabled = FALSE,
                       !.clouds[c].activePointQuantity = NULL]
     ELSE s

clearActiveQuantity(s, c) ==
  LET s1 == deleteProgram(s, c)
      a == s1.clouds[c].activePointQuantity
  IN IF a # NULL
     THEN [Emit(s1, Ev("clearActive", a, NULL, IsAlive(s1, a)))
             EXCEPT !.heap[a].enabled = FALSE,
                    !.clouds[c].activePointQuantity = NULL]
     ELSE s1

\* setActiveQuantity that forgets q->enabled = true
setActiveQuantity_keepsFlag(s, c, q) ==
  LET s1 == clearActiveQuantity(s, c)
  IN [Emit(s1, Ev("setActive", q, NULL, IsAlive(s1, q)))
        EXCEPT !.clouds[c].activePointQuantity = q]

setActiveQuantity(s, c, q) ==
  LET s1 == clearActiveQuantity(s, c)
  IN [Emit(s1, Ev("setActive", q, NULL, IsAlive(s1, q)))
        EXCEPT !.clouds[c].activePointQuantity = q,
               !.heap[q].enabled = TRUE]

\* delete q
deleteQuantity(s, q) ==
  [Emit(s, Ev("delete", q, NULL, IsAlive(s, q))) EXCEPT !.heap[q].deleted = @ + 1]

\* removeQuantity that destroys the quantity without looking at the active
\* reference
removeQuantity_keepsActive(s, c, name) ==
  IF MapFind(s.clouds[c].quantities, name) = {} THEN s
  ELSE LET q == MapAt(s.clouds[c].quantities, name)
           s1 == [Emit(s, Ev("erase", q, NULL, TRUE))
                    EXCEPT !.clouds[c].quantities = MapErase(@, name)]
       IN deleteQuantity(s1, q)

\* removeQuantity that destroys the quantity first and clears the activation
\* afterwards
removeQuantity_deletesFirst(s, c, name) ==
  IF MapFind(s.clouds[c].quantities, name) = {} THEN s
  ELSE LET q == MapAt(s.clouds[c].quantities, name)
           s1 == [Emit(s, Ev("erase", q, NULL, TRUE))
                    EXCEPT !.clouds[c].quantities = MapErase(@, name)]
           s2 == deleteQuantity(s1, q)
       IN IF s2.clouds[c].activePointQuantity = q
          THEN clearActiveQuantity(s2, c)
          ELSE s2

\* removeQuantity that forgets to erase the map entry
removeQuantity_keepsEntry(s, c, name) ==
  IF MapFind(s.clouds[c].quantities, name) = {} THEN s
  ELSE LET q == MapAt(s.clouds[c].quantities, name)
           s2 == IF s.clouds[c].activePointQuantity = q
                 THEN clearActiveQuantity(s, c)
                 ELSE s
       IN deleteQuantity(s2, q)

\* removeQuantity that clears the activation whichever quantity it removes
removeQuantity_alwaysClears(s, c, name) ==
  IF MapFind(s.clouds[c].quantities, name) = {} THEN s
  ELSE LET q == MapAt(s.clouds[c].quantities, name)
           s1 == [Emit(s, Ev("erase", q, NULL, TRUE))
                    EXCEPT !.clouds[c].quantities = MapErase(@, name)]
       IN deleteQuantity(clearActiveQuantity(s1, c), q)

removeQuantity(s, c, name) ==
  IF MapFind(s.clouds[c].quantities, name) = {} THEN s
  ELSE LET q == MapAt(s.clouds[c].quantities, name)
           s1 == [Emit(s, Ev("erase", q, NULL, TRUE))
                    EXCEPT !.clouds[c].quantities = MapErase(@, name)]
           s2 == IF s1.clouds[c].activePointQuantity = q
                 THEN clearActiveQuantity(s1, c)
                 ELSE s1
       IN deleteQuantity(s2, q)

\* the plain overload overwriting the map entry without removing the old one
addQuantity_overwrites(s, c, q) ==
  LET name == s.heap[q].name
      present == MapFind(s.clouds[c].quantities, name) # {}
      wasEnabled == IF present
                    THEN s.heap[MapAt(s.clouds[c].quantities, name)].enabled
                    ELSE FALSE
      s2 == [Emit(s, Ev("store", q, NULL, TRUE))
               EXCEPT !.clouds[c].quantities = MapStore(@, name, q)]
  IN IF wasEnabled
     THEN [s2 EXCEPT !.heap[q].enabled = TRUE]
     ELSE s2

\* addQuantity(PointCloudQuantity*)
addQuantity(s, c, q) ==
  LET name == s.heap[q].name
      present == MapFind(s.clouds[c].quantities, name) # {}
      wasEnabled == IF present
                    THEN s.heap[MapAt(s.clouds[c].quantities, name)].enabled
                    ELSE FALSE
      s1 == IF present THEN removeQuantity(s, c, name) ELSE s
      s2 == [Emit(s1, Ev("store", q, NULL, IsAlive(s1, q)))
               EXCEPT !.clouds[c].quantities = MapStore(@, name, q)]
  IN IF wasEnabled
     THEN [s2 EXCEPT !.heap[q].enabled = TRUE]
     ELSE s2

\* the drawing overload activating every quantity it stores
addQuantityThatDrawsPoints_alwaysActivates(s, c, q) ==
  LET name == s.heap[q].name
      present == MapFind(s.clouds[c].quantities, name) # {}
      s1 == IF present THEN removeQuantity(s, c, name) ELSE s
      s2 == [Emit(s1, Ev("store", q, NULL, TRUE))
               EXCEPT !.clouds[c].quantities = MapStore(@, name, q)]
  IN setActiveQuantity([s2 EXCEPT !.heap[q].enabled = TRUE], c, q)

\* addQuantity(PointCloudQuantityThatDrawsPoints*)
addQuantityThatDrawsPoints(s, c, q) ==
  LET name == s.heap[q].name
      present == MapFind(s.clouds[c].quantities, name) # {}
      wasEnabled == IF present
                    THEN s.heap[MapAt(s.clouds[c].quantities, name)].enabled
                    ELSE FALSE
      s1 == IF present THEN removeQuantity(s, c, name) ELSE s
      s2 == [Emit(s1, Ev("store", q, NULL, IsAlive(s1, q)))
               EXCEPT !.clouds[c].quantities = MapStore(@, name, q)]
  IN IF wasEnabled
     THEN setActiveQuantity([s2 EXCEPT !.heap[q].enabled = TRUE], c, q)
     ELSE s2

\* getQuantity that reports the error whatever errorIfAbsent says
getQuantity_alwaysReports(s, c, name, errorIfAbsent) ==
  IF MapFind(s.clouds[c].quantities, name) = {}
  THEN Emit(error(s), Ev("return", NULL, NULL, TRUE))
  ELSE Emit(s, Ev("return", MapAt(s.clouds[c].quantities, name), NULL, TRUE))

getQuantity(s, c, name, errorIfAbsent) ==
  IF MapFind(s.clouds[c].quantities, name) = {}
  THEN LET s1 == IF errorIfAbsent THEN error(s) ELSE s
       IN Emit(s1, Ev("return", NULL, NULL, TRUE))
  ELSE Emit(s, Ev("return", MapAt(s.clouds[c].quantities, name), NULL, TRUE))

\* ------------------------------------------------- construction, disposal
PointCloudCtor(s, name, n) ==
  LET c == Len(s.clouds) + 1
      s1 == [s EXCEPT !.clouds = Append(@, NewPointCloud(name, n))]
  IN preparePick(prepare(s1, c), c)

RECURSIVE deleteQuantities(_, _)
deleteQuantities(s, m) ==
  IF m = {} THEN s
  ELSE LET k == MapBegin(m)
       IN deleteQuantities(deleteQuantity(s, MapAt(m, k)), MapErase(m, k))

PointCloudDtor(s, c) ==
  LET s1 == deleteProgram(s, c)
      s2 == deleteQuantities(s1, s1.clouds[c].quantities)
  IN [s2 EXCEPT !.clouds[c].deleted = @ + 1]

registerPointCloud(s, name, n) ==
  LET s1 == PointCloudCtor(s, name, n)
      c == Len(s1.clouds)
      success == registerStructureSucceeds(s1, c)
      s2 == registerStructure(s1, c)
  IN IF ~success THEN PointCloudDtor(s2, c) ELSE s2

\* --------------------------------------------------------------- geometry
\* glm::vec3 with integer coordinates, as <<x, y, z>>.
Coords == 0..MaxCoord

Vec3 == {<<x, y, z>> : x \in Coords, y \in Coords, z \in Coords}

dot(a, b) == a[1] * b[1] + a[2] * b[2] + a[3] * b[3]

length2(v) == dot(v, v)

componentwiseMin(a, b) == [i \in 1..3 |-> IF a[i] < b[i] THEN a[i] ELSE b[i]]

componentwiseMax(a, b) == [i \in 1..3 |-> IF a[i] > b[i] THEN a[i] ELSE b[i]]

\* glm::vec3(objectTransform * glm::vec4(rawP, 1.0)) for an affine transform
\* with rows m[1..3] and translation t.
applyTransform(T, rawP) == [i \in 1..3 |-> dot(T.m[i], rawP) + T.t[i]]

\* Object transforms: the identity, a quarter turn about z and a uniform
\* scaling, each followed by a translation along x.
Transforms ==
  {[m |-> m, t |-> <<tx, 0, 0>>] :
     m \in {<< <<1, 0, 0>>, <<0, 1, 0>>, <<0, 0, 1>> >>,
            << <<0, -1, 0>>, <<1, 0, 0>>, <<0, 0, 1>> >>,
            << <<2, 0, 0>>, <<0, 2, 0>>, <<0, 0, 2>> >>},
     tx \in Coords}

\* boundingBox(): the loop over points; min and max start at +infinity and
\* -infinity, so the first point replaces both.
RECURSIVE boundingBoxLoop(_, _, _, _)
boundingBoxLoop(s, c, i, bound) ==
  IF i > Len(s.clouds[c].points) THEN bound
  ELSE LET p == applyTransform(s.clouds[c].objectTransform, s.clouds[c].points[i])
       IN boundingBoxLoop(s, c, i + 1,
            IF i = 1 THEN <<p, p>>
            ELSE <<componentwiseMin(bound[1], p), componentwiseMax(bound[2], p)>>)

boundingBox(s, c) == boundingBoxLoop(s, c, 1, <<>>)

\* lengthScale(): the loop over points.  center2 is twice the center and acc
\* is four times the running maximum of length2(p - center), so the value
\* returned is the square of 2 * sqrt(maximum).
RECURSIVE lengthScaleLoop(_, _, _, _, _)
lengthScaleLoop(s, c, center2, i, acc) ==
  IF i > Len(s.clouds[c].points) THEN acc
  ELSE LET p == s.clouds[c].points[i]
           d == length2([k \in 1..3 |-> 2 * p[k] - center2[k]])
       IN lengthScaleLoop(s, c, center2, i + 1, IF d > acc THEN d ELSE acc)

lengthScale(s, c) ==
  LET bound == boundingBox(s, c)
      center2 == [k \in 1..3 |-> bound[1][k] + bound[2][k]]
  IN lengthScaleLoop(s, c, center2, 1, 0)

\* ---------------------------------------------------------------- actions
Empty ==
  [clouds |-> <<>>, heap |-> <<>>, progs |-> <<>>, nextPickBufferInd |-> 0,
   structures |-> {}, log |-> <<>>]

Op(name, c, key, q, flag, snap) ==
  [name |-> name, c |-> c, key |-> key, q |-> q, flag |-> flag, snap |-> snap]

\* The point clouds that exist.
Clouds == {c \in 1..Len(clouds) : clouds[c].deleted = 0}

\* registerPointCloud(name, points)
RegisterPointCloud ==
  \E name \in Names, n \in 0..MaxPoints :
    /\ pc = "idle"
    /\ Len(clouds) < MaxClouds
    /\ Commit(registerPointCloud(S, name, n))
    /\ op' = Op("registerPointCloud", Len(clouds) + 1, name, NULL, FALSE, {})
    /\ pc' = pc

\* The caller constructs a quantity and hands it to the plain overload, which
\* takes any quantity through a base-class pointer.
AddQuantity ==
  \E c \in Clouds, name \in Names, drawsPoints \in BOOLEAN :
    LET q == Len(heap) + 1
        s1 == [S EXCEPT !.heap = Append(@, NewQuantity(name, drawsPoints))]
    IN /\ pc = "idle"
       /\ Len(heap) < MaxObjs
       /\ Commit(addQuantity(s1, c, q))
       /\ op' = Op("addQuantity", c, name, q, FALSE, clouds[c].quantities)
       /\ pc' = pc

\* The caller constructs an element-drawing quantity and hands it to the
\* overload for PointCloudQuantityThatDrawsPoints*.
AddQuantityThatDrawsPoints ==
  \E c \in Clouds, name \in Names :
    LET q == Len(heap) + 1
        s1 == [S EXCEPT !.heap = Append(@, NewQuantity(name, TRUE))]
    IN /\ pc = "idle"
       /\ Len(heap) < MaxObjs
       /\ Commit(addQuantityThatDrawsPoints(s1, c, q))
       /\ op' = Op("addQuantityThatDrawsPoints", c, name, q, FALSE,
                   clouds[c].quantities)
       /\ pc' = pc

GetQuantity ==
  \E c \in Clouds, name \in Names, errorIfAbsent \in BOOLEAN :
    /\ pc = "idle"
    /\ Commit(getQuantity(S, c, name, errorIfAbsent))
    /\ op' = Op("getQuantity", c, name, NULL, errorIfAbsent, clouds[c].quantities)
    /\ pc' = pc

RemoveQuantity ==
  \E c \in Clouds, name \in Names :
    /\ pc = "idle"
    /\ Commit(removeQuantity(S, c, name))
    /\ op' = Op("removeQuantity", c, name, clouds[c].activePointQuantity, FALSE,
                clouds[c].quantities)
    /\ pc' = pc

\* setActiveQuantity on a registered element-drawing quantity
SetActiveQuantity ==
  \E c \in Clouds :
    \E e \in clouds[c].quantities :
      /\ pc = "idle"
      /\ heap[e.ptr].drawsPoints
      /\ Commit(setActiveQuantity(S, c, e.ptr))
      /\ op' = Op("setActiveQuantity", c, e.name, e.ptr, FALSE, clouds[c].quantities)
      /\ pc' = pc

ClearActiveQuantity ==
  \E c \in Clouds :
    /\ pc = "idle"
    /\ Commit(clearActiveQuantity(S, c))
    /\ op' = Op("clearActiveQuantity", c, NULL, clouds[c].activePointQuantity, FALSE,
                clouds[c].quantities)
    /\ pc' = pc

\* removeAllQuantities: the call, one iteration of its loop, its return
RemoveAllCall ==
  \E c \in Clouds :
    /\ pc = "idle"
    /\ Commit(S)
    /\ op' = Op("removeAllQuantities", c, NULL, clouds[c].activePointQuantity, FALSE,
                clouds[c].quantities)
    /\ pc' = "removeAllQuantities"

RemoveAllIter ==
  /\ pc = "removeAllQuantities"
  /\ Cardinality(clouds[op.c].quantities) > 0
  /\ Commit(removeQuantity(S, op.c, MapBegin(clouds[op.c].quantities)))
  /\ UNCHANGED <<op, pc>>

RemoveAllReturn ==
  /\ pc = "removeAllQuantities"
  /\ ~(Cardinality(clouds[op.c].quantities) > 0)
  /\ Commit(S)
  /\ pc' = "idle"
  /\ UNCHANGED op

Draw ==
  \E c \in Clouds :
    /\ pc = "idle"
    /\ (clouds[c].enabled /\ clouds[c].program = NULL) => Len(progs) < MaxProgs
    /\ Commit(draw(S, c))
    /\ op' = Op("draw", c, NULL, clouds[c].activePointQuantity, clouds[c].enabled,
                clouds[c].quantities)
    /\ pc' = pc

DrawPick ==
  \E c \in Clouds :
    /\ pc = "idle"
    /\ Commit(drawPick(S, c))
    /\ op' = Op("drawPick", c, NULL, NULL, clouds[c].enabled, clouds[c].quantities)
    /\ pc' = pc

\* ImGui::Checkbox("Enabled", &enabled)
SetEnabled ==
  \E c \in Clouds, b \in BOOLEAN :
    /\ pc = "idle"
    /\ b # clouds[c].enabled
    /\ Commit([S EXCEPT !.clouds[c].enabled = b])
    /\ op' = Op("setEnabled", c, NULL, NULL, b, clouds[c].quantities)
    /\ pc' = pc

\* boundingBox(); op.snap is the pair returned.
BoundingBox ==
  \E c \in Clouds :
    /\ pc = "idle"
    /\ Commit(S)
    /\ op' = Op("boundingBox", c, NULL, NULL, FALSE, boundingBox(S, c))
    /\ pc' = pc

\* lengthScale(); op.snap is the square of the value returned.
LengthScale ==
  \E c \in Clouds :
    /\ pc = "idle"
    /\ Commit(S)
    /\ op' = Op("lengthScale", c, NULL, NULL, FALSE, lengthScale(S, c))
    /\ pc' = pc

\* The caller passes a quantity that this point cloud already holds under its
\* name to addQuantity again, through either overload.  removeQuantity
\* destroys the object before it is stored, so the lines after it read and
\* write a destroyed object; here the freed memory still holds what the
\* object held (the other outcomes are FreedMemoryChanges and Crash).
ReAddQuantity ==
  \E c \in Clouds, drawing \in BOOLEAN :
    \E e \in clouds[c].quantities :
      /\ pc = "idle"
      /\ IsAlive(S, e.ptr)
      /\ heap[e.ptr].name = e.name
      /\ drawing => heap[e.ptr].drawsPoints
      /\ Commit(IF drawing THEN addQuantityThatDrawsPoints(S, c, e.ptr)
                           ELSE addQuantity(S, c, e.ptr))
      /\ op' = Op(IF drawing THEN "addQuantityThatDrawsPoints" ELSE "addQuantity",
                  c, e.name, e.ptr, FALSE, clouds[c].quantities)
      /\ pc' = pc

\* delete of the point cloud
DestroyPointCloud ==
  \E c \in Clouds :
    /\ pc = "idle"
    /\ Commit(PointCloudDtor(S, c))
    /\ op' = Op("delete", c, NULL, NULL, FALSE, clouds[c].quantities)
    /\ pc' = pc

\* The memory of a destroyed quantity is reused: what a later read through a
\* stale pointer finds in its enabled field is arbitrary.
FreedMemoryChanges ==
  \E q \in 1..Len(heap), b \in BOOLEAN :
    /\ pc = "idle"
    /\ heap[q].deleted > 0
    /\ b # heap[q].enabled
    /\ heap' = [heap EXCEPT ![q].enabled = b]
    /\ UNCHANGED <<clouds, progs, nextPickBufferInd, structures, log, op, pc>>

\* The last operation read, wrote or deleted a destroyed object: the process
\* may have been terminated by that access.
Crash ==
  /\ pc = "idle"
  /\ \E i \in 1..Len(log) : ~log[i].ok
  /\ pc' = "crashed"
  /\ UNCHANGED <<clouds, heap, progs, nextPickBufferInd, structures, log, op>>

\* ---------------------------------------------------------- specifications
StartIn(s) ==
  /\ clouds = s.clouds
  /\ heap = s.heap
  /\ progs = s.progs
  /\ nextPickBufferInd = s.nextPickBufferInd
  /\ structures = s.structures
  /\ log = s.log

\* One registered point cloud, and the operations on it and its quantities.
Init ==
  /\ StartIn(registerPointCloud(Empty, 1, 1))
  /\ op = Op("registerPointCloud", 1, 1, NULL, FALSE, {})
  /\ pc = "idle"

Next ==
  \/ AddQuantity
  \/ AddQuantityThatDrawsPoints
  \/ RemoveQuantity
  \/ SetActiveQuantity
  \/ ClearActiveQuantity
  \/ RemoveAllCall
  \/ RemoveAllIter
  \/ RemoveAllReturn
  \/ Draw

Spec == Init /\ [][Next]_vars

\* The registry and its lookups.
NextGet ==
  \/ AddQuantity
  \/ AddQuantityThatDrawsPoints
  \/ SetActiveQuantity
  \/ RemoveQuantity
  \/ GetQuantity

SpecGet == Init /\ [][NextGet]_vars

\* Point clouds come into being: registration from an empty scene.
InitPick ==
  /\ StartIn(Empty)
  /\ op = Op("none", NULL, NULL, NULL, FALSE, {})
  /\ pc = "idle"

NextPick ==
  \/ RegisterPointCloud
  \/ DrawPick

SpecPick == InitPick /\ [][NextPick]_vars

\* The render pass: drawing and picking a structure that the user may
\* disable, with quantities coming, going and taking over the primary pass.
NextRender ==
  \/ AddQuantity
  \/ AddQuantityThatDrawsPoints
  \/ SetActiveQuantity
  \/ RemoveQuantity
  \/ Draw
  \/ DrawPick
  \/ SetEnabled

SpecRender == Init /\ [][NextRender]_vars

\* The measurements of one registered point cloud, over every point set and
\* object transform within the bounds.
InitGeom ==
  \E n \in 1..MaxPoints :
    \E points \in [1..n -> Vec3], objectTransform \in Transforms :
      /\ StartIn([registerPointCloud(Empty, 1, n) EXCEPT
                    !.clouds[1] = @ @@ [points |-> points,
                                        objectTransform |-> objectTransform]])
      /\ op = Op("registerPointCloud", 1, 1, NULL, FALSE, {})
      /\ pc = "idle"

NextGeom ==
  \/ BoundingBox
  \/ LengthScale

SpecGeom == InitGeom /\ [][NextGeom]_vars

\* Quantities handed over by a caller that keeps its pointers: a registered
\* quantity may be added again, and the point cloud may be destroyed.
NextAlias ==
  \/ AddQuantity
  \/ AddQuantityThatDrawsPoints
  \/ ReAddQuantity
  \/ RemoveQuantity
  \/ DestroyPointCloud
  \/ FreedMemoryChanges
  \/ Crash

SpecAlias == Init /\ [][NextAlias]_vars

\* ------------------------------------------------------------ properties
Ptrs(m) == {e.ptr : e \in m}

\* The positions of the log at which the call `what` on quantity q is recorded.
At(l, what, q) == {i \in 1..Len(l) : l[i].ev = what /\ l[i].obj = q}

\* The last call was removeQuantity(name) with name the active quantity's.
RemovedActive ==
  /\ op.name = "removeQuantity"
  /\ op.q # NULL
  /\ [name |-> op.key, ptr |-> op.q] \in op.snap

\* C1: at most one registered quantity is the active drawing quantity, and
\* the quantity the active reference points to has enabled == true.
C1_ActiveIsEnabled ==
  \A c \in Clouds :
    LET a == clouds[c].activePointQuantity
    IN /\ Cardinality({e \in clouds[c].quantities : e.ptr = a}) <= 1
       /\ a # NULL => heap[a].enabled

\* Reached: a second quantity was made active while another was registered and
\* had been active before.
C1_Witness ==
  \E c \in Clouds :
    /\ op.name = "setActiveQuantity"
    /\ Cardinality(clouds[c].quantities) = 2
    /\ clouds[c].activePointQuantity = op.q
    /\ \E e \in clouds[c].quantities : e.ptr # op.q /\ ~heap[e.ptr].enabled

\* C2: a non-null active reference points to an entry of the quantities map
\* that has not been destroyed and is an element-drawing quantity.
C2_ActiveIsRegistered ==
  \A c \in Clouds :
    LET a == clouds[c].activePointQuantity
    IN a # NULL =>
         /\ a \in Ptrs(clouds[c].quantities)
         /\ IsAlive(S, a)
         /\ heap[a].drawsPoints

\* Reached: a quantity is active after another quantity has been destroyed.
C2_Witness ==
  \E c \in Clouds :
    /\ clouds[c].activePointQuantity # NULL
    /\ \E q \in 1..Len(heap) : heap[q].deleted > 0
    /\ op.name = "draw"

\* C5: removing the active quantity ends with the active reference null and
\* the program absent, both done before the quantity is destroyed, and draw()
\* never dereferences a destroyed quantity.
C5_RemoveActiveIsSafe ==
  /\ RemovedActive =>
       /\ clouds[op.c].activePointQuantity = NULL
       /\ clouds[op.c].program = NULL
       /\ At(log, "delete", op.q) # {}
       /\ \A k \in At(log, "delete", op.q) :
            /\ \E i \in At(log, "deleteProgram", NULL) : i < k
            /\ \E j \in At(log, "clearActive", op.q) : j < k
  /\ op.name = "draw" => \A i \in 1..Len(log) : log[i].ok

\* Reached: a draw() after the quantity that built an earlier program was
\* removed.
C5_Witness ==
  /\ op.name = "draw"
  /\ Len(log) > 0
  /\ \E p \in 1..Len(progs) : progs[p].by # NULL /\ heap[progs[p].by].deleted = 1
  /\ clouds[op.c].quantities # {}

\* A step that is a call of addQuantity (either overload) on cloud c with the
\* freshly constructed quantity q.
AddStep(c, q) ==
  /\ op'.name \in {"addQuantity", "addQuantityThatDrawsPoints"}
  /\ op'.c = c
  /\ op'.q = q
  /\ q = Len(heap) + 1
  /\ Len(heap') = q

\* C3: replacing an enabled quantity named X leaves the new quantity
\* registered under X and enabled, and if the replaced quantity was the active
\* one the new quantity is active exactly when it is element-drawing.
C3_ReplaceKeepsActivation ==
  [][\A c \in Clouds : \A q \in 1..MaxObjs :
       AddStep(c, q) =>
         \A e \in MapFind(clouds[c].quantities, op'.key) :
           heap[e.ptr].enabled =>
             /\ MapFind(clouds'[c].quantities, op'.key)
                  = {[name |-> op'.key, ptr |-> q]}
             /\ heap'[q].enabled
             /\ clouds[c].activePointQuantity = e.ptr =>
                  (clouds'[c].activePointQuantity = q <=> heap'[q].drawsPoints)]_vars

\* C4 as stated: the first element-drawing quantity added to an empty
\* registry becomes active and enabled, and adding a second one under another
\* name makes that one active and disables the first.
C4_AddActivates ==
  [][\A c \in Clouds : \A q \in 1..MaxObjs :
       (AddStep(c, q) /\ heap'[q].drawsPoints
          /\ MapFind(clouds[c].quantities, op'.key) = {}) =>
         /\ clouds'[c].activePointQuantity = q
         /\ heap'[q].enabled
         /\ \A e \in clouds[c].quantities : ~heap'[e.ptr].enabled]_vars

\* C4 (amended): adding a quantity under a name that is not registered leaves
\* the active reference and every enabled flag as they were, the new quantity
\* not enabled; setActiveQuantity(B) while A is active makes B active and
\* enabled and sets A.enabled to false.
C4_AddDoesNotActivate ==
  [][\A c \in Clouds :
       /\ \A q \in 1..MaxObjs :
            (AddStep(c, q) /\ MapFind(clouds[c].quantities, op'.key) = {}) =>
              /\ clouds'[c].activePointQuantity = clouds[c].activePointQuantity
              /\ ~heap'[q].enabled
              /\ [name |-> op'.key, ptr |-> q] \in clouds'[c].quantities
              /\ \A e \in clouds[c].quantities :
                   heap'[e.ptr].enabled = heap[e.ptr].enabled
       /\ (op'.name = "setActiveQuantity" /\ op'.c = c) =>
            LET a == clouds[c].activePointQuantity
            IN /\ clouds'[c].activePointQuantity = op'.q
               /\ heap'[op'.q].enabled
               /\ (a # NULL /\ a # op'.q) => ~heap'[a].enabled]_vars

\* Reached: A is active and enabled, and the element-drawing quantity B has
\* just been added under another name and is not enabled.
C4_Witness ==
  \E c \in Clouds :
    LET a == clouds[c].activePointQuantity
    IN /\ op.name = "addQuantityThatDrawsPoints"
       /\ Cardinality(clouds[c].quantities) = 2
       /\ a # NULL /\ a # op.q
       /\ heap[a].enabled
       /\ ~heap[op.q].enabled

\* C6: a present primary program was built by the current active quantity's
\* createProgram, or by the default path when no quantity is active; and the
\* draw() that follows the removal of the active quantity builds the default
\* program and draws it.
C6_ProgramIsCoherent ==
  /\ [](\A c \in Clouds :
          LET p == clouds[c].program
          IN p # NULL =>
               /\ ProgAlive(S, p)
               /\ ~progs[p].pick
               /\ progs[p].by = clouds[c].activePointQuantity)
  /\ [][(RemovedActive /\ op'.name = "draw" /\ op'.c = op.c) =>
          LET p == clouds'[op.c].program
          IN /\ p # NULL
             /\ progs'[p].by = NULL
             /\ \E i, j \in 1..Len(log') :
                  /\ i < j
                  /\ log'[i] = Ev("new GLProgram", NULL, p, TRUE)
                  /\ log'[j] = Ev("program.draw", NULL, p, TRUE)]_vars

\* Reached: draw() has rebuilt the default program after a quantity that had
\* built the program was removed.
C6_Witness ==
  /\ op.name = "draw"
  /\ \E p \in 1..Len(progs) :
       /\ progs[p].by # NULL
       /\ heap[progs[p].by].deleted = 1
       /\ clouds[op.c].program > p
       /\ progs[clouds[op.c].program].by = NULL

\* C7: the registry holds at most one entry per name, and addQuantity(q) under
\* a registered name ends with q the only entry of that name and the old
\* object out of the map and destroyed exactly once.
C7_ReplaceDestroysOld ==
  /\ [](\A c \in Clouds : \A name \in Names :
          Cardinality(MapFind(clouds[c].quantities, name)) <= 1)
  /\ [][\A c \in Clouds : \A q \in 1..MaxObjs :
          AddStep(c, q) =>
            \A e \in MapFind(clouds[c].quantities, op'.key) :
              /\ MapFind(clouds'[c].quantities, op'.key)
                   = {[name |-> op'.key, ptr |-> q]}
              /\ e.ptr \notin Ptrs(clouds'[c].quantities)
              /\ heap[e.ptr].deleted = 0
              /\ heap'[e.ptr].deleted = 1
              /\ Cardinality(At(log', "delete", e.ptr)) = 1]_vars

\* Reached: an addQuantity has replaced a quantity of the same name while
\* another name was registered too.
C7_Witness ==
  \E c \in Clouds :
    /\ op.name \in {"addQuantity", "addQuantityThatDrawsPoints"}
    /\ \E e \in op.snap : e.name = op.key /\ heap[e.ptr].deleted = 1
    /\ [name |-> op.key, ptr |-> op.q] \in clouds[c].quantities

\* C8: getQuantity returns the registered quantity when the name is present;
\* when it is absent it returns null and reports an error exactly when
\* errorIfAbsent is true; it changes neither the map, the active reference nor
\* the program.
C8_GetQuantity ==
  [][op'.name = "getQuantity" =>
       LET m == clouds[op'.c].quantities
           errors == At(log', "error", NULL)
           ret == log'[Len(log')]
       IN /\ Len(log') > 0
          /\ ret.ev = "return"
          /\ MapFind(m, op'.key) # {} =>
               /\ ret.obj = MapAt(m, op'.key)
               /\ ret.obj # NULL
               /\ errors = {}
          /\ MapFind(m, op'.key) = {} =>
               /\ ret.obj = NULL
               /\ Cardinality(errors) = (IF op'.flag THEN 1 ELSE 0)
          /\ clouds' = clouds
          /\ heap' = heap
          /\ progs' = progs]_vars

\* Reached: a lookup of an absent name with errorIfAbsent set, in a registry
\* that holds another name, reported the error.
C8_Witness ==
  /\ op.name = "getQuantity"
  /\ op.flag
  /\ op.snap # {}
  /\ MapFind(op.snap, op.key) = {}
  /\ At(log, "error", NULL) # {}

\* The set of pick indices a point cloud has written to its pick colours.
PickRange(c) == {clouds[c].pickInds[k] : k \in 1..Len(clouds[c].pickInds)}

\* C9: the pick indices of a point cloud are pickStart + i for its elements i,
\* all distinct, and no index is shared with another point cloud, whether that
\* one still exists or not.
C9_PickRangesDisjoint ==
  \A c \in 1..Len(clouds) :
    /\ Len(clouds[c].pickInds) = clouds[c].nPoints
    /\ \A i, j \in 1..Len(clouds[c].pickInds) :
         /\ clouds[c].pickInds[j] = clouds[c].pickInds[1] + (j - 1)
         /\ i # j => clouds[c].pickInds[i] # clouds[c].pickInds[j]
    /\ \A d \in 1..Len(clouds) : c # d => PickRange(c) \cap PickRange(d) = {}

\* Reached: two point clouds with elements exist at the same time, after a
\* third with elements was constructed between them and disposed of.
C9_Witness ==
  \E c, d, e \in 1..Len(clouds) :
    /\ c < d /\ d < e
    /\ {c, e} \subseteq Clouds
    /\ clouds[d].deleted = 1
    /\ clouds[c].nPoints > 0 /\ clouds[d].nPoints > 0 /\ clouds[e].nPoints > 0

\* C10: removeAllQuantities terminates: every iteration of its loop removes
\* exactly one of the entries that were registered at the call, so the
\* entries left shrink until the loop exits; and when it returns the map is
\* empty, the active reference null, every quantity that was registered
\* destroyed exactly once, and the program absent if a quantity was active.
C10_RemoveAll ==
  /\ [](pc = "removeAllQuantities" =>
          /\ clouds[op.c].quantities \subseteq op.snap
          /\ \A e \in op.snap \ clouds[op.c].quantities : heap[e.ptr].deleted = 1)
  /\ [][(pc = "removeAllQuantities" /\ pc' = "removeAllQuantities") =>
          /\ Cardinality(clouds'[op.c].quantities)
               = Cardinality(clouds[op.c].quantities) - 1
          /\ clouds'[op.c].quantities \subseteq clouds[op.c].quantities]_vars
  /\ []((pc = "idle" /\ op.name = "removeAllQuantities") =>
          /\ clouds[op.c].quantities = {}
          /\ clouds[op.c].activePointQuantity = NULL
          /\ \A e \in op.snap : heap[e.ptr].deleted = 1
          /\ op.q # NULL => clouds[op.c].program = NULL)

\* Reached: removeAllQuantities has returned from a registry of two
\* quantities, one of them active.
C10_Witness ==
  /\ pc = "idle"
  /\ op.name = "removeAllQuantities"
  /\ Cardinality(op.snap) = 2
  /\ op.q # NULL

\* C11: draw() and drawPick() of a disabled point cloud do nothing: no call
\* is made (no program built, no uniform bound, no draw call, no quantity
\* hook) and the programs, the active reference and the quantities are
\* unchanged.
C11_DisabledDrawsNothing ==
  [][(op'.name \in {"draw", "drawPick"} /\ ~clouds[op'.c].enabled) =>
       /\ log' = <<>>
       /\ clouds' = clouds
       /\ heap' = heap
       /\ progs' = progs]_vars

\* Reached: draw() was called on a disabled point cloud that has an active
\* quantity, another quantity and no program.
C11_Witness ==
  /\ op.name = "draw"
  /\ ~clouds[op.c].enabled
  /\ clouds[op.c].program = NULL
  /\ clouds[op.c].activePointQuantity # NULL
  /\ Cardinality(clouds[op.c].quantities) = 2

\* The positions of the log at which a call of kind `what` is recorded.
Calls(l, what) == {i \in 1..Len(l) : l[i].ev = what}

\* C13: draw() of an enabled point cloud builds the program if it is absent,
\* then binds the structure's uniforms, then calls the active quantity's
\* setProgramValues if there is one, then issues exactly one draw call on the
\* program, and after that calls draw() once on every registered quantity.
C13_DrawOrder ==
  [][(op'.name = "draw" /\ clouds[op'.c].enabled) =>
       LET c == op'.c
           l == log'
           a == clouds[c].activePointQuantity
           p == clouds'[c].program
           builds == Calls(l, "new GLProgram") \cup Calls(l, "createProgram")
           binds == Calls(l, "setPointCloudUniforms")
           hooks == Calls(l, "setProgramValues")
           draws == Calls(l, "program.draw")
           qdraws == Calls(l, "quantity.draw")
       IN /\ p # NULL
          /\ Cardinality(draws) = 1
          /\ Cardinality(binds) = 1
          /\ \A i \in binds \cup hooks \cup draws : l[i].prog = p
          /\ IF clouds[c].program = NULL
             THEN /\ Cardinality(builds) = 1
                  /\ \A i \in builds : l[i].prog = p /\ l[i].obj = a
                  /\ (a = NULL) = (Calls(l, "createProgram") = {})
             ELSE builds = {} /\ p = clouds[c].program
          /\ IF a = NULL THEN hooks = {}
             ELSE Cardinality(hooks) = 1 /\ \A i \in hooks : l[i].obj = a
          /\ \A i \in builds : \A j \in binds : i < j
          /\ \A i \in binds : \A j \in hooks \cup draws : i < j
          /\ \A i \in hooks : \A j \in draws : i < j
          /\ \A i \in draws : \A j \in qdraws : i < j
          /\ Cardinality(qdraws) = Cardinality(clouds[c].quantities)
          /\ \A e \in clouds[c].quantities :
               Cardinality(At(l, "quantity.draw", e.ptr)) = 1
          /\ Len(l) = Cardinality(builds \cup binds \cup hooks \cup draws \cup qdraws)]_vars

\* Reached: an enabled point cloud with an active quantity and a quantity
\* that is neither enabled nor element-drawing has drawn, building its
\* program through the active quantity.
C13_Witness ==
  /\ op.name = "draw"
  /\ op.flag
  /\ Calls(log, "createProgram") # {}
  /\ \E e \in clouds[op.c].quantities :
       /\ ~heap[e.ptr].drawsPoints
       /\ ~heap[e.ptr].enabled
       /\ At(log, "quantity.draw", e.ptr) # {}

\* C14: clearActiveQuantity always leaves the program absent and the active
\* reference null, also when no quantity was active; a quantity that was
\* active gets enabled == false; the map and every other quantity are
\* unchanged.  setActiveQuantity(q) does that clear step first and ends with
\* q active, q.enabled == true and the program absent.
C14_ClearAndSetActive ==
  [][(op'.name \in {"clearActiveQuantity", "setActiveQuantity"}) =>
       LET c == op'.c
           a == clouds[c].activePointQuantity
           p == clouds[c].program
           q == op'.q
           setting == op'.name = "setActiveQuantity"
       IN /\ clouds'[c].program = NULL
          /\ p # NULL => progs'[p].deleted = 1
          /\ clouds'[c].quantities = clouds[c].quantities
          /\ Calls(log', "deleteProgram") # {}
          /\ IF setting
             THEN /\ clouds'[c].activePointQuantity = q
                  /\ heap'[q].enabled
                  /\ \A i \in Calls(log', "deleteProgram") :
                       \A j \in Calls(log', "setActive") : i < j
                  /\ \A i \in Calls(log', "clearActive") :
                       \A j \in Calls(log', "setActive") : i < j
             ELSE clouds'[c].activePointQuantity = NULL
          /\ (a # NULL /\ ~(setting /\ a = q)) => ~heap'[a].enabled
          /\ \A o \in 1..Len(heap) :
               (o # a /\ ~(setting /\ o = q)) => heap'[o] = heap[o]]_vars

\* Reached: clearActiveQuantity was called with no quantity active and a
\* program present, and the program is gone.
C14_Witness ==
  /\ op.name = "clearActiveQuantity"
  /\ op.q = NULL
  /\ clouds[op.c].quantities # {}
  /\ \E i \in Calls(log, "deleteProgram") : log[i].prog # NULL
  /\ clouds[op.c].program = NULL

\* C18: removeQuantity of an absent name changes nothing; removeQuantity of a
\* registered quantity that is not the active one removes and destroys that
\* entry only, and the active reference, the program and the other
\* quantities' flags are as before.
C18_RemoveInactive ==
  [][(op'.name = "removeQuantity") =>
       LET c == op'.c
           m == clouds[c].quantities
           hit == MapFind(m, op'.key)
       IN /\ hit = {} =>
               /\ clouds' = clouds
               /\ heap' = heap
               /\ progs' = progs
          /\ \A e \in hit :
               e.ptr # clouds[c].activePointQuantity =>
                 /\ clouds'[c].quantities = m \ {e}
                 /\ clouds'[c].activePointQuantity = clouds[c].activePointQuantity
                 /\ clouds'[c].program = clouds[c].program
                 /\ progs' = progs
                 /\ heap'[e.ptr].deleted = 1
                 /\ \A o \in 1..Len(heap) : o # e.ptr => heap'[o] = heap[o]]_vars

\* Reached: a quantity that was not the active one was removed while another
\* quantity was active and its program built.
C18_Witness ==
  /\ op.name = "removeQuantity"
  /\ op.q # NULL
  /\ clouds[op.c].activePointQuantity = op.q
  /\ clouds[op.c].program # NULL
  /\ progs[clouds[op.c].program].by = op.q
  /\ \E e \in op.snap : e.name = op.key /\ e.ptr # op.q /\ heap[e.ptr].deleted = 1

\* C19: every registered element-drawing quantity with enabled == true is the
\* active drawing quantity.
C19_EnabledDrawerIsActive ==
  \A c \in Clouds :
    \A e \in clouds[c].quantities :
      (heap[e.ptr].drawsPoints /\ heap[e.ptr].enabled) =>
        clouds[c].activePointQuantity = e.ptr

\* C16: every GPU program a point cloud creates is released exactly once: no
\* program is released twice, none is bound, drawn or released after its
\* release, and every program that no living point cloud holds any more has
\* been released.
C16_ProgramsReleasedOnce ==
  /\ \A p \in 1..Len(progs) : progs[p].deleted <= 1
  /\ \A i \in 1..Len(log) :
       log[i].ev \in {"setPointCloudUniforms", "program.draw", "deleteProgram"}
         => log[i].ok
  /\ \A p \in 1..Len(progs) :
       progs[p].deleted = 0 =>
         \E c \in Clouds : p \in {clouds[c].program, clouds[c].pickProgram}

\* C12: registerPointCloud under a name that is in use destroys the point
\* cloud it constructed and nothing of the attempt persists: the registry and
\* the structures registered before are unchanged, the pick index counter is
\* where it was, and every program the attempt created has been released.
C12_FailedRegistrationLeavesNothing ==
  [][(/\ op'.name = "registerPointCloud"
      /\ \E e \in structures : e.name = op'.key) =>
       /\ structures' = structures
       /\ \A c \in 1..Len(clouds) : clouds'[c] = clouds[c]
       /\ Len(clouds') = Len(clouds) + 1
       /\ clouds'[op'.c].deleted = 1
       /\ heap' = heap
       /\ nextPickBufferInd' = nextPickBufferInd
       /\ \A p \in 1..Len(progs) : progs'[p] = progs[p]
       /\ \A p \in (Len(progs) + 1)..Len(progs') : progs'[p].deleted = 1]_vars

\* The points of c after objectTransform.
TransformedPoints(c) ==
  {applyTransform(clouds[c].objectTransform, clouds[c].points[k]) :
     k \in 1..Len(clouds[c].points)}

SetMin(X) == CHOOSE x \in X : \A y \in X : x <= y

SetMax(X) == CHOOSE x \in X : \A y \in X : y <= x

\* C15: lengthScale() is twice the largest distance from the center of the
\* bounding box of the transformed points to a transformed point (compared
\* as squares); boundingBox() is the componentwise min/max of the transformed
\* points; for {(0,0,0), (2,0,0)} and the identity transform lengthScale()
\* is 2.
C15_LengthScale ==
  LET c == op.c
      tp == TransformedPoints(c)
      lo == [k \in 1..3 |-> SetMin({q[k] : q \in tp})]
      hi == [k \in 1..3 |-> SetMax({q[k] : q \in tp})]
  IN /\ op.name = "boundingBox" => op.snap = <<lo, hi>>
     /\ op.name = "lengthScale" =>
          /\ op.snap = SetMax({length2([k \in 1..3 |-> 2 * q[k] - (lo[k] + hi[k])]) :
                                 q \in tp})
          /\ (/\ clouds[c].points = << <<0, 0, 0>>, <<2, 0, 0>> >>
              /\ clouds[c].objectTransform =
                   [m |-> << <<1, 0, 0>>, <<0, 1, 0>>, <<0, 0, 1>> >>,
                    t |-> <<0, 0, 0>>]) => op.snap = 2 * 2

\* C17: after any sequence of addQuantity and removeQuantity calls, also
\* with addQuantity given a quantity that is already registered under its
\* name, every entry of the quantities map refers to a quantity that has not
\* been destroyed, and no quantity is destroyed more than once, the
\* destruction of the point cloud included.
C17_NoDanglingNoDoubleDelete ==
  /\ \A c \in Clouds :
       \A e \in clouds[c].quantities : heap[e.ptr].deleted = 0
  /\ \A q \in 1..Len(heap) : heap[q].deleted <= 1

====
